---------------------------- MODULE Spec2Model ----------------------------
(***************************************************************************)
(* A model of react-form-field-hook (src/src/index.tsx): the useFormField  *)
(* hook (field state, validation runner, staleness counter, debounce       *)
(* timer) as a state machine.                                              *)
(*                                                                         *)
(* A field is a record holding the hook's useState cells, its useRef       *)
(* cells, what the closures of the last render captured, the validation    *)
(* runs it has started (each an async call of runValidation with its       *)
(* caller's continuation) and the timers it has scheduled.  Every `await`  *)
(* of the source is a suspension point: the code up to it is one step and  *)
(* the code after it another.                                              *)
(***************************************************************************)
EXTENDS Integers, Sequences, FiniteSets, TLC

VARIABLES
    config,     \* field name -> the options the hook was called with
    fields,     \* field name -> the state of that field's hook
    form        \* the validateAll calls of the form the fields belong to

vars == <<config, fields, form>>

-----------------------------------------------------------------------------
(* Bounds of the model *)

\* validation runs a field may start
MaxRuns == 2
\* debounce timers a field may schedule
MaxTimers == 2
\* calls of onValueChange a field may make
MaxEdits == 2
\* the longest text typed into a number input
MaxText == 2

-----------------------------------------------------------------------------
(* Values, messages and rules *)

\* `null` of error and of a rule's result
Null == "<null>"
\* a rule whose promise rejects
REJECT == "<reject>"
\* a rule that throws when called
THROW == "<throw>"

\* the string values of a field, as sequences of characters
Values == { <<>>, <<"a">>, <<"a", "b">> }

\* NaN, the number that is not one
NaN == [type |-> "number", text |-> <<>>, num |-> 0, nan |-> TRUE]

\* a === b: equal values, except that NaN is not equal to itself
StrictEquals(a, b) == a = b /\ a # NaN

GenericError == "Validation error occurred"
RequiredMessage == "This field is required"
MinLengthMessage == "Minimum 2 characters"

\* String.prototype.trim on a sequence of characters
RECURSIVE TrimLeft(_)
TrimLeft(v) == IF v # <<>> /\ Head(v) = " " THEN TrimLeft(Tail(v)) ELSE v

RECURSIVE TrimRight(_)
TrimRight(v) ==
    IF v # <<>> /\ v[Len(v)] = " " THEN TrimRight(SubSeq(v, 1, Len(v) - 1)) ELSE v

Trim(v) == TrimRight(TrimLeft(v))

\* validators.required(): !value || !value.trim() ? message : null
required(v) == IF v = <<>> \/ Trim(v) = <<>> THEN RequiredMessage ELSE Null

\* validators.minLength(2): value && value.length < min ? message : null
minLength(v) == IF v # <<>> /\ Len(v) < 2 THEN MinLengthMessage ELSE Null

\* The values of a number input: what was typed, as a string, or a number.
String(text) == [type |-> "string", text |-> text, num |-> 0, nan |-> FALSE]
Number(n) == [type |-> "number", text |-> <<>>, num |-> n, nan |-> FALSE]
isNaN(x) == x.nan

Digits == {"0", "1", "2"}
DigitValue(c) == CASE c = "0" -> 0 [] c = "1" -> 1 [] c = "2" -> 2

\* the value of the longest prefix of digits
RECURSIVE LeadingDigits(_, _)
LeadingDigits(text, acc) ==
    IF text = <<>> \/ Head(text) \notin Digits
    THEN acc
    ELSE LeadingDigits(Tail(text), 10 * acc + DigitValue(Head(text)))

\* parseFloat on texts of digits, "-", " " and letters: leading white space
\* is skipped, then an optional sign and the longest run of digits are read;
\* with no digit there the result is NaN, and what follows the digits is
\* ignored
parseFloat(text) ==
    LET s == TrimLeft(text)
        negative == s # <<>> /\ Head(s) = "-"
        body == IF negative THEN Tail(s) ELSE s
    IN  IF body = <<>> \/ Head(body) \notin Digits
        THEN NaN
        ELSE Number(IF negative THEN 0 - LeadingDigits(body, 0)
                                ELSE LeadingDigits(body, 0))

MinimumMessage(m) == "Minimum value is " \o ToString(m)
MaximumMessage(m) == "Maximum value is " \o ToString(m)

\* validators.min with a slip: the bound itself is rejected
minInclusive(m, value) ==
    LET num == IF value.type = "string" THEN parseFloat(value.text) ELSE value
    IN  IF ~isNaN(num) /\ num.num <= m THEN MinimumMessage(m) ELSE Null

\* validators.min(m)(value)
min(m, value) ==
    LET num == IF value.type = "string" THEN parseFloat(value.text) ELSE value
    IN  IF ~isNaN(num) /\ num.num < m THEN MinimumMessage(m) ELSE Null

\* validators.max(M)(value)
max(m, value) ==
    LET num == IF value.type = "string" THEN parseFloat(value.text) ELSE value
    IN  IF ~isNaN(num) /\ num.num > m THEN MaximumMessage(m) ELSE Null

\* A caller's rule that asks a server: the call throws on the empty value,
\* the request fails (the promise rejects) on "a", and passes otherwise.
remote(v) == IF v = <<>> THEN THROW ELSE IF v = <<"a">> THEN REJECT ELSE Null

\* rule(valueToValidate): what the rule returns, or how it fails
ValidationRule(rule, v) ==
    CASE rule = "required" -> required(v)
      [] rule = "minLength" -> minLength(v)
      [] rule = "remote" -> remote(v)
      \* validators.min(2), validators.max(12)
      [] rule = "min" -> min(2, v)
      [] rule = "max" -> max(12, v)

MatchMessage == "Values do not match"

\* validators.matches(getOtherValue)(value), where other is what the call
\* getOtherValue() returns
matches(other, value) ==
    IF ~StrictEquals(value, other) THEN MatchMessage ELSE Null

\* the password a confirmation field is constructed next to
PasswordAtFirst == <<"a">>

\* rules[k](v) with a slip: a matches rule compares with the value the other
\* field had when the rule was made
RuleCallAtConstruction(o, k, v) ==
    IF o.rules[k] = "matches"
    THEN matches(PasswordAtFirst, v)
    ELSE ValidationRule(o.rules[k], v)

\* rules[k](v): a matches rule calls its accessor, which returns what the
\* object it reads (o.otherValue) holds now
RuleCall(o, k, v) ==
    IF o.rules[k] = "matches"
    THEN matches(o.otherValue, v)
    ELSE ValidationRule(o.rules[k], v)

\* `if (result)`: a non-empty string
Truthy(result) == result # Null /\ result # ""

-----------------------------------------------------------------------------
(* Options *)

UseFormFieldOptions(initialValue, rules, onChange, onBlur, debounce) ==
    [ initialValue |-> initialValue,
      rules |-> rules,
      validateOnChange |-> onChange,
      validateOnBlur |-> onBlur,
      validateDebounce |-> debounce,
      transform |-> "none",
      onValueChange |-> FALSE,
      onValidationChange |-> TRUE,
      disabled |-> FALSE ]

\* the configurations a field is constructed with
FieldConfigs ==
    { UseFormFieldOptions(<<>>, <<"required", "minLength">>, TRUE, TRUE, 0),
      UseFormFieldOptions(<<>>, <<"required", "minLength">>, TRUE, TRUE, 300),
      UseFormFieldOptions(<<"a", "b">>, <<"remote", "minLength">>, TRUE, TRUE, 0),
      UseFormFieldOptions(<<>>, <<>>, TRUE, TRUE, 0) }

-----------------------------------------------------------------------------
(* The validation runner *)

\* One call of runValidation together with the caller awaiting it.
\*   id      the number of the call among the field's calls
\*   src     who called: "validate", "change", "blur" or "timer"
\*   val     valueToValidate
\*   gen     currentValidation (0 when the rule list is empty)
\*   pc      "rule": awaiting the result of rules[idx];
\*           "ret": runValidation has returned `result`, the caller's
\*           continuation has not run yet; "done": the continuation has run
\*   out     what the awaited rule call produced
\*   stale   the counter had moved on when the awaited rule settled
\*   calls   the calls of onValidationChange made for this run
\*   answer  what validate() resolved to: "pending", "true" or "false"
NewRun(id, src, v, gen) ==
    [ id |-> id, src |-> src, val |-> v, gen |-> gen, pc |-> "ret", idx |-> 0,
      out |-> Null, result |-> Null, stale |-> FALSE, calls |-> <<>>,
      answer |-> "pending" ]

\* A handler is a closure of the render it was returned by: a run or a timer
\* it starts keeps the rules of that render.  When a matches rule reads
\* another field of the form (o.reads), x carries what that render's accessor
\* returns.
Capture(o, x) ==
    IF "reads" \in DOMAIN o THEN x @@ [other |-> o.otherValue] ELSE x

\* the options as the run or timer x holds them
Closure(o, x) ==
    IF "other" \in DOMAIN x THEN [o EXCEPT !.otherValue = x.other] ELSE o

\* no call has completed yet
NoRun == [NewRun(0, "none", <<>>, 0) EXCEPT !.pc = "none"]

\* useFormField: the state after the first render
useFormField(o) ==
    [ value |-> o.initialValue,
      touched |-> FALSE,
      visited |-> FALSE,
      focused |-> FALSE,
      error |-> Null,
      validating |-> FALSE,
      disabled |-> o.disabled,
      initialValueRef |-> o.initialValue,
      validateTimeoutRef |-> 0,
      validationCounterRef |-> 0,
      \* the component that called the hook is on the page
      mounted |-> TRUE,
      \* what the callbacks of the last render closed over
      shownValue |-> o.initialValue,
      shownDisabled |-> o.disabled,
      shownTouched |-> FALSE,
      shownFocused |-> FALSE,
      shownError |-> Null,
      \* the memoized dirty flag, computed by the first render
      dirty |-> ~StrictEquals(o.initialValue, o.initialValue),
      \* the calls of runValidation that have not completed, how many were
      \* ever made, and the one that completed last
      runs |-> {},
      runSeq |-> 0,
      last |-> NoRun,
      \* the timers setTimeout holds, and how many were ever scheduled
      timers |-> {},
      timerSeq |-> 0,
      \* the arguments of the calls of onValueChange, in order
      valueLog |-> <<>> ]

pristine(s) == ~s.dirty
invalid(s) == s.error # Null
\* valid with a slip: a field under validation counts as valid
validWhileValidating(s) == ~invalid(s)

valid(s) == ~invalid(s) /\ ~s.validating


\* run r of field s becomes r2
Update(s, r, r2) == [s EXCEPT !.runs = (@ \ {r}) \cup {r2}]

\* `return result` of runValidation
Return(r, result) == [r EXCEPT !.pc = "ret", !.out = Null, !.result = result]

\* rule(valueToValidate) for rules[k] of run r, and the catch around it
CallRule(o, s, r, k) ==
    LET out == RuleCall(Closure(o, r), k, r.val)
        r1 == [r EXCEPT !.idx = k]
    IN  IF out = THROW
        THEN [Update(s, r, Return(r1, GenericError)) EXCEPT !.validating = FALSE]
        ELSE Update(s, r, [r1 EXCEPT !.pc = "rule", !.out = out])

\* runValidation with a slip: the early return for an empty rule list is
\* missing, so the run takes a generation and goes through an empty loop
runValidationWithoutShortcut(o, s, v, src) ==
    LET id == s.runSeq + 1
        currentValidation == s.validationCounterRef + 1
        r == Capture(o, NewRun(id, src, v, currentValidation))
        s1 == [s EXCEPT !.runSeq = id,
                        !.validationCounterRef = currentValidation,
                        !.validating = TRUE,
                        !.runs = @ \cup {r}]
    IN  IF Len(o.rules) = 0
        THEN [s1 EXCEPT !.validating = FALSE]
        ELSE CallRule(o, s1, r, 1)

\* runValidation up to its first await
runValidation(o, s, v, src) ==
    LET id == s.runSeq + 1
    IN  IF Len(o.rules) = 0
        THEN [s EXCEPT !.runSeq = id,
                       !.runs = @ \cup {Capture(o, NewRun(id, src, v, 0))}]
        ELSE LET currentValidation == s.validationCounterRef + 1
                 r == Capture(o, NewRun(id, src, v, currentValidation))
                 s1 == [s EXCEPT !.runSeq = id,
                                 !.validationCounterRef = currentValidation,
                                 !.validating = TRUE,
                                 !.runs = @ \cup {r}]
             IN  CallRule(o, s1, r, 1)

\* the staleness check after the await
IsLatest(r, s) == r.gen = s.validationCounterRef

\* ResumeValidation with a slip: a rule's message does not end the loop while
\* rules remain, so the last rule called decides
ResumeValidationToTheEnd(o, s, r) ==
    LET r1 == [r EXCEPT !.stale = (r.gen # s.validationCounterRef)]
    IN  IF r.out = REJECT
        THEN [Update(s, r, Return(r1, GenericError)) EXCEPT !.validating = FALSE]
        ELSE IF ~IsLatest(r, s)
        THEN Update(s, r, Return(r1, Null))
        ELSE IF r.idx < Len(o.rules)
        THEN CallRule(o, Update(s, r, r1), r1, r.idx + 1)
        ELSE [Update(s, r, Return(r1, IF Truthy(r.out) THEN r.out ELSE Null))
                 EXCEPT !.validating = FALSE]

\* ResumeValidation with a slip: the catch block reports no error
ResumeValidationSwallows(o, s, r) ==
    LET r1 == [r EXCEPT !.stale = (r.gen # s.validationCounterRef)]
    IN  IF r.out = REJECT
        THEN [Update(s, r, Return(r1, Null)) EXCEPT !.validating = FALSE]
        ELSE IF ~IsLatest(r, s)
        THEN Update(s, r, Return(r1, Null))
        ELSE IF Truthy(r.out)
        THEN [Update(s, r, Return(r1, r.out)) EXCEPT !.validating = FALSE]
        ELSE IF r.idx < Len(o.rules)
        THEN CallRule(o, Update(s, r, r1), r1, r.idx + 1)
        ELSE [Update(s, r, Return(r1, Null)) EXCEPT !.validating = FALSE]

\* ResumeValidation with a slip: a run whose rules all pass returns without
\* setValidating(false)
ResumeValidationLeavesValidating(o, s, r) ==
    LET r1 == [r EXCEPT !.stale = (r.gen # s.validationCounterRef)]
    IN  IF r.out = REJECT
        THEN [Update(s, r, Return(r1, GenericError)) EXCEPT !.validating = FALSE]
        ELSE IF ~IsLatest(r, s)
        THEN Update(s, r, Return(r1, Null))
        ELSE IF Truthy(r.out)
        THEN [Update(s, r, Return(r1, r.out)) EXCEPT !.validating = FALSE]
        ELSE IF r.idx < Len(o.rules)
        THEN CallRule(o, Update(s, r, r1), r1, r.idx + 1)
        ELSE Update(s, r, Return(r1, Null))

\* runValidation from the await of rules[idx] of run r to the next await or
\* to its return
ResumeValidation(o, s, r) ==
    LET r1 == [r EXCEPT !.stale = (r.gen # s.validationCounterRef)]
    IN  IF r.out = REJECT
        THEN [Update(s, r, Return(r1, GenericError)) EXCEPT !.validating = FALSE]
        ELSE IF ~IsLatest(r, s)
        THEN Update(s, r, Return(r1, Null))
        ELSE IF Truthy(r.out)
        THEN [Update(s, r, Return(r1, r.out)) EXCEPT !.validating = FALSE]
        ELSE IF r.idx < Len(o.rules)
        THEN CallRule(o, Update(s, r, r1), r1, r.idx + 1)
        ELSE [Update(s, r, Return(r1, Null)) EXCEPT !.validating = FALSE]

\* Notify with a slip: the callback is only told of failures
NotifyFailure(o, r) ==
    IF o.onValidationChange /\ r.result # Null
    THEN [r EXCEPT !.calls = Append(@, <<r.result = Null, r.result>>)]
    ELSE r

\* onValidationChange(validationError === null, validationError)
Notify(o, r) ==
    IF o.onValidationChange
    THEN [r EXCEPT !.calls = Append(@, <<r.result = Null, r.result>>)]
    ELSE r

\* triggerValidation's inner validate, after `await runValidation(...)`
TriggerContinuation(o, s, r) ==
    [s EXCEPT !.error = r.result,
              !.runs = @ \ {r},
              !.last = [Notify(o, r) EXCEPT !.pc = "done"]]

\* validate, after `await runValidation(value)`
ValidateContinuation(o, s, r) ==
    [s EXCEPT !.error = r.result,
              !.touched = TRUE,
              !.runs = @ \ {r},
              !.last = [Notify(o, r) EXCEPT
                           !.pc = "done",
                           !.answer = IF r.result = Null THEN "true" ELSE "false"]]

Continuation(o, s, r) ==
    IF r.src = "validate"
    THEN ValidateContinuation(o, s, r)
    ELSE TriggerContinuation(o, s, r)

-----------------------------------------------------------------------------
(* The debounce timer *)

\* ClearTimeout with a slip: the timer is left with the host
ClearTimeoutForgotten(s) == s

\* if (validateTimeoutRef.current) clearTimeout(validateTimeoutRef.current)
ClearTimeout(s) ==
    IF s.validateTimeoutRef # 0
    THEN [s EXCEPT !.timers = {t \in @ : t.id # s.validateTimeoutRef}]
    ELSE s

\* validateTimeoutRef.current = setTimeout(validate, validateDebounce)
SetTimeout(o, s, v) ==
    LET id == s.timerSeq + 1
    IN  [s EXCEPT !.timerSeq = id,
                  !.validateTimeoutRef = id,
                  !.timers = @ \cup {Capture(o, [id |-> id, val |-> v])}]

\* triggerValidation with a slip: the pending timer is not cleared
triggerValidationKeepsTimer(o, s, v, immediate, src) ==
    IF immediate \/ o.validateDebounce = 0
    THEN runValidation(o, s, v, src)
    ELSE SetTimeout(o, s, v)

triggerValidation(o, s, v, immediate, src) ==
    LET s1 == ClearTimeout(s)
    IN  IF immediate \/ o.validateDebounce = 0
        THEN runValidation(o, s1, v, src)
        ELSE SetTimeout(o, s1, v)

\* the cleanup of the effect, run when the component is unmounted
unmount(s) == [ClearTimeout(s) EXCEPT !.mounted = FALSE]

\* the timer's callback: the inner validate up to its await
TimerCallback(o, s, t) ==
    runValidation(Closure(o, t), [s EXCEPT !.timers = @ \ {t}], t.val, "timer")

-----------------------------------------------------------------------------
(* The handlers and actions of a field *)

\* transform ? transform(newValue) : newValue
Transform(o, v) == IF o.transform = "trim" THEN Trim(v) ELSE v

\* if (onValueChange) onValueChange(transformedValue)
OnValueChange(o, s, v) ==
    IF o.onValueChange THEN [s EXCEPT !.valueLog = Append(@, v)] ELSE s

\* handleChange with a slip: the `if (disabled) return` is missing
handleChangeWhileDisabled(o, s, newValue) ==
    LET transformedValue == Transform(o, newValue)
        s1 == OnValueChange(o, [s EXCEPT !.value = transformedValue],
                            transformedValue)
    IN  IF o.validateOnChange
        THEN triggerValidation(o, s1, transformedValue, FALSE, "change")
        ELSE s1

\* handleChange with a slip: the raw input is what gets validated
handleChangeValidatesInput(o, s, newValue) ==
    IF s.shownDisabled
    THEN s
    ELSE LET transformedValue == Transform(o, newValue)
             s1 == OnValueChange(o, [s EXCEPT !.value = transformedValue],
                                 transformedValue)
         IN  IF o.validateOnChange
             THEN triggerValidation(o, s1, newValue, FALSE, "change")
             ELSE s1

\* handleChange with a slip: validateOnChange is not consulted
handleChangeAlwaysValidates(o, s, newValue) ==
    IF s.shownDisabled
    THEN s
    ELSE LET transformedValue == Transform(o, newValue)
             s1 == OnValueChange(o, [s EXCEPT !.value = transformedValue],
                                 transformedValue)
         IN  triggerValidation(o, s1, transformedValue, FALSE, "change")

handleChange(o, s, newValue) ==
    IF s.shownDisabled
    THEN s
    ELSE LET transformedValue == Transform(o, newValue)
             s1 == OnValueChange(o, [s EXCEPT !.value = transformedValue],
                                 transformedValue)
         IN  IF o.validateOnChange
             THEN triggerValidation(o, s1, transformedValue, FALSE, "change")
             ELSE s1

\* handleBlur with a slip: the validation is requested without `immediate`
handleBlurDebounced(o, s) ==
    LET s1 == [s EXCEPT !.touched = TRUE, !.focused = FALSE]
    IN  IF o.validateOnBlur
        THEN triggerValidation(o, s1, s.shownValue, FALSE, "blur")
        ELSE s1

\* handleBlur with a slip: validateOnBlur is not consulted
handleBlurAlwaysValidates(o, s) ==
    triggerValidation(o, [s EXCEPT !.touched = TRUE, !.focused = FALSE],
                      s.shownValue, TRUE, "blur")

handleBlur(o, s) ==
    LET s1 == [s EXCEPT !.touched = TRUE, !.focused = FALSE]
    IN  IF o.validateOnBlur
        THEN triggerValidation(o, s1, s.shownValue, TRUE, "blur")
        ELSE s1

\* handleFocus with a slip: focusing cancels the pending debounced validation
handleFocusCancels(s) == ClearTimeout([s EXCEPT !.visited = TRUE, !.focused = TRUE])

handleFocus(s) == [s EXCEPT !.visited = TRUE, !.focused = TRUE]

\* validate up to its await
validate(o, s) == runValidation(o, s, s.shownValue, "validate")

\* reset with a slip: setFocused(false) is missing
resetLeavesFocus(s) ==
    ClearTimeout([s EXCEPT !.value = s.initialValueRef,
                           !.touched = FALSE,
                           !.visited = FALSE,
                           !.error = Null,
                           !.validating = FALSE])

\* reset with a slip: the generation counter starts over
resetRestartsCounter(s) ==
    ClearTimeout([s EXCEPT !.value = s.initialValueRef,
                           !.touched = FALSE,
                           !.visited = FALSE,
                           !.focused = FALSE,
                           !.error = Null,
                           !.validating = FALSE,
                           !.validationCounterRef = 0])

reset(s) ==
    ClearTimeout([s EXCEPT !.value = s.initialValueRef,
                           !.touched = FALSE,
                           !.visited = FALSE,
                           !.focused = FALSE,
                           !.error = Null,
                           !.validating = FALSE])

\* setInitialValue with a slip: the baseline is left as it was
setInitialValueKeepsBaseline(s, newInitialValue) ==
    [s EXCEPT !.value = newInitialValue,
              !.touched = FALSE,
              !.error = Null]

\* setInitialValue with a slip: it clears visited as reset does
setInitialValueUnvisits(s, newInitialValue) ==
    [s EXCEPT !.initialValueRef = newInitialValue,
              !.value = newInitialValue,
              !.touched = FALSE,
              !.visited = FALSE,
              !.error = Null]

setInitialValue(s, newInitialValue) ==
    [s EXCEPT !.initialValueRef = newInitialValue,
              !.value = newInitialValue,
              !.touched = FALSE,
              !.error = Null]

\* handleSetValue with a slip: it validates like handleChange does
handleSetValueValidates(o, s, newValue) ==
    LET transformedValue == Transform(o, newValue)
        s1 == OnValueChange(o, [s EXCEPT !.value = transformedValue],
                            transformedValue)
    IN  IF o.validateOnChange
        THEN triggerValidation(o, s1, transformedValue, FALSE, "change")
        ELSE s1

handleSetValue(o, s, newValue) ==
    LET transformedValue == Transform(o, newValue)
    IN  OnValueChange(o, [s EXCEPT !.value = transformedValue], transformedValue)

setError(s, e) == [s EXCEPT !.error = e]

setTouched(s, b) == [s EXCEPT !.touched = b]

setDisabled(s, b) == [s EXCEPT !.disabled = b]

\* <div className={className}>{error}</div>
ErrorNode(error) == <<"div", error>>

\* renderError with a slip: focus does not hide the error
renderErrorWhileFocused(s) ==
    IF ~s.shownTouched \/ s.shownError = Null \/ ~Truthy(s.shownError)
    THEN Null
    ELSE ErrorNode(s.shownError)

\* renderError of the last render: touched, invalid, error and focused are
\* the ones that render returned
renderError(s) ==
    IF ~s.shownTouched \/ s.shownError = Null \/ ~Truthy(s.shownError)
       \/ s.shownFocused
    THEN Null
    ELSE ErrorNode(s.shownError)

\* the dirty memo: recomputed by a render when `value` is not the value of
\* the render before
dirty(s) ==
    IF s.value # s.shownValue
    THEN ~StrictEquals(s.value, s.initialValueRef)
    ELSE s.dirty

\* a render with a slip: the effect that clears the timer has no dependency
\* list, so its cleanup runs before every render after the first
RenderCleaningUp(s) ==
    ClearTimeout([s EXCEPT !.shownValue = s.value,
                           !.shownDisabled = s.disabled,
                           !.shownTouched = s.touched,
                           !.shownFocused = s.focused,
                           !.shownError = s.error,
                           !.dirty = dirty(s)])

\* a render: the callbacks close over the current state
Render(s) ==
    [s EXCEPT !.shownValue = s.value,
              !.shownDisabled = s.disabled,
              !.shownTouched = s.touched,
              !.shownFocused = s.focused,
              !.shownError = s.error,
              !.dirty = dirty(s)]

-----------------------------------------------------------------------------
(* The state machine *)

fieldNames == DOMAIN config

\* useFormFields: the form after the first render. A validateAll call holds
\*   id       the number of the call
\*   awaits   field name -> the validate() call whose promise it awaits
\*   results  field name -> what that promise resolved to, or "pending"
\*   answer   what validateAll resolved to: "pending", "true" or "false"
useFormFields(cfg) ==
    [ pending |-> {},
      callSeq |-> 0,
      \* the last setValues or setInitialValues call threw a TypeError
      threw |-> FALSE,
      last |-> [ id |-> 0,
                 awaits |-> [f \in DOMAIN cfg |-> 0],
                 results |-> [f \in DOMAIN cfg |-> "pending"],
                 answer |-> "pending" ] ]

\* validateAll with a slip: only the first field is validated
validateAllFirstOnly(cfg, fs) ==
    LET first == CHOOSE f \in DOMAIN cfg : TRUE
    IN  [f \in DOMAIN cfg |-> IF f = first THEN validate(cfg[f], fs[f]) ELSE fs[f]]

\* fieldNames.map((name) => fields[name].validate())
validateAll(cfg, fs) == [f \in DOMAIN cfg |-> validate(cfg[f], fs[f])]

\* await Promise.all(...): the call waits for the validate() call just made
\* on each field
AwaitAll(fm, fs, fs2) ==
    LET id == fm.callSeq + 1
    IN  [fm EXCEPT !.callSeq = id,
                   !.pending = @ \cup
                       {[ id |-> id,
                          awaits |-> [f \in DOMAIN fs |-> fs[f].runSeq + 1],
                          results |-> [f \in DOMAIN fs |-> "pending"],
                          answer |-> "pending" ]}]

\* the promise of validate() call r of field f resolves
PromiseAll(fm, f, r) ==
    IF r.src # "validate"
    THEN fm
    ELSE [fm EXCEPT !.pending =
             { [c EXCEPT !.results[f] =
                    IF c.awaits[f] = r.id
                    THEN IF r.result = Null THEN "true" ELSE "false"
                    ELSE @] : c \in @ }]

\* fieldNames.some((name) => fields[name].dirty)
isDirty(fs) == \E f \in DOMAIN fs : fs[f].dirty

\* isValid with a slip: one valid field is enough
isValidSome(fs) == \E f \in DOMAIN fs : valid(fs[f])

\* fieldNames.every((name) => fields[name].valid)
isValid(fs) == \A f \in DOMAIN fs : valid(fs[f])

\* fieldNames.every((name) => fields[name].disabled)
isDisabled(fs) == \A f \in DOMAIN fs : fs[f].disabled

\* form.setDisabled: fieldNames.forEach((name) => fields[name].setDisabled(disabled))
formSetDisabled(fs, b) == [f \in DOMAIN fs |-> setDisabled(fs[f], b)]

\* The members every object inherits from Object.prototype: `name in fields`
\* is true of them although they are no fields.
ObjectPrototype == {"constructor", "toString"}

\* name in fields
In(name, fs) == name \in DOMAIN fs \/ name \in ObjectPrototype

\* What a forEach over Object.entries(values) leaves behind: the fields, and
\* whether an entry's callback threw, which ends the loop.  An inherited
\* member is no field object: calling its setValue is a TypeError.
RECURSIVE setValuesFrom(_, _, _, _)
setValuesFrom(cfg, fs, entries, k) ==
    IF k > Len(entries)
    THEN [fields |-> fs, threw |-> FALSE]
    ELSE LET name == entries[k][1]
             value == entries[k][2]
         IN  IF ~In(name, fs)
             THEN setValuesFrom(cfg, fs, entries, k + 1)
             ELSE IF name \notin DOMAIN fs
             THEN [fields |-> fs, threw |-> TRUE]
             ELSE setValuesFrom(cfg,
                      [fs EXCEPT ![name] = handleSetValue(cfg[name], fs[name], value)],
                      entries, k + 1)

setValues(cfg, fs, values) == setValuesFrom(cfg, fs, values, 1)

RECURSIVE setInitialValuesFrom(_, _, _)
setInitialValuesFrom(fs, entries, k) ==
    IF k > Len(entries)
    THEN [fields |-> fs, threw |-> FALSE]
    ELSE LET name == entries[k][1]
             value == entries[k][2]
         IN  IF ~In(name, fs)
             THEN setInitialValuesFrom(fs, entries, k + 1)
             ELSE IF name \notin DOMAIN fs
             THEN [fields |-> fs, threw |-> TRUE]
             ELSE setInitialValuesFrom(
                      [fs EXCEPT ![name] = setInitialValue(fs[name], value)],
                      entries, k + 1)

setInitialValues(fs, values) == setInitialValuesFrom(fs, values, 1)

\* resetAll with a slip: only the untouched fields are reset
resetAllUntouched(fs) ==
    [f \in DOMAIN fs |-> IF fs[f].touched THEN fs[f] ELSE reset(fs[f])]

\* fieldNames.forEach((name) => fields[name].reset())
resetAll(fs) == [f \in DOMAIN fs |-> reset(fs[f])]

\* getValues with a slip: it reports what the fields started with
getValuesAtFirst(fs) == [f \in DOMAIN fs |-> fs[f].initialValueRef]

\* Object.fromEntries(fieldNames.map((name) => [name, fields[name].value])),
\* where `fields` is what the last render returned
getValues(fs) == [f \in DOMAIN fs |-> fs[f].shownValue]

\* Object.fromEntries(fieldNames.map((name) => [name, fields[name].error]))
getErrors(fs) == [f \in DOMAIN fs |-> fs[f].shownError]

\* results.every((valid) => valid)
every(results) ==
    IF \A f \in DOMAIN results : results[f] = "true" THEN "true" ELSE "false"

\* the bounds: a field starts at most MaxRuns runs and MaxTimers timers
CanRun(f) == fields[f].runSeq < MaxRuns
CanSchedule(f) == fields[f].timerSeq < MaxTimers
CanLog(f) == config[f].onValueChange => Len(fields[f].valueLog) < MaxEdits

\* no validation of field f is under way: every run started has answered
Settled(f) == \A r \in fields[f].runs : r.pc = "done"

Step(f, s) ==
    /\ fields' = [fields EXCEPT ![f] = s]
    /\ UNCHANGED <<config, form>>

OnChange(f, x) ==
    /\ CanLog(f)
    /\ config[f].validateOnChange =>
           IF config[f].validateDebounce = 0 THEN CanRun(f) ELSE CanSchedule(f)
    /\ Step(f, handleChange(config[f], fields[f], x))

OnBlur(f) ==
    /\ config[f].validateOnBlur => CanRun(f)
    /\ Step(f, handleBlur(config[f], fields[f]))

OnFocus(f) == Step(f, handleFocus(fields[f]))

Validate(f) ==
    /\ CanRun(f)
    /\ Step(f, validate(config[f], fields[f]))

Reset(f) == Step(f, reset(fields[f]))

\* the component that holds the field is taken off the page
Unmount(f) ==
    /\ fields[f].mounted
    /\ Step(f, unmount(fields[f]))

SetInitialValue(f, v) == Step(f, setInitialValue(fields[f], v))

SetValue(f, v) ==
    /\ CanLog(f)
    /\ Step(f, handleSetValue(config[f], fields[f], v))

SetError(f, e) == Step(f, setError(fields[f], e))

SetTouched(f, b) == Step(f, setTouched(fields[f], b))

SetDisabled(f, b) == Step(f, setDisabled(fields[f], b))

\* a debounce timer fires
TimerFires(f) ==
    \E t \in fields[f].timers :
        /\ CanRun(f)
        /\ Step(f, TimerCallback(config[f], fields[f], t))

\* the rule a run awaits settles
RuleSettles(f) ==
    \E r \in fields[f].runs :
        /\ r.pc = "rule"
        /\ Step(f, ResumeValidation(config[f], fields[f], r))

\* the caller of runValidation resumes; what validate() resolves to reaches
\* the validateAll calls waiting for it
CallerResumes(f) ==
    \E r \in fields[f].runs :
        /\ r.pc = "ret"
        /\ fields' = [fields EXCEPT ![f] = Continuation(config[f], fields[f], r)]
        /\ form' = PromiseAll(form, f, r)
        /\ UNCHANGED config

\* validateAll up to its await
ValidateAll ==
    /\ \A f \in fieldNames : CanRun(f)
    /\ fields' = validateAll(config, fields)
    /\ form' = AwaitAll(form, fields, fields')
    /\ UNCHANGED config

\* validateAll after its await
ValidateAllResumes ==
    \E c \in form.pending :
        /\ \A f \in fieldNames : c.results[f] # "pending"
        /\ form' = [form EXCEPT !.pending = @ \ {c},
                                !.last = [c EXCEPT !.answer = every(c.results)]]
        /\ UNCHANGED <<config, fields>>

Rerender(f) ==
    /\ Render(fields[f]) # fields[f]
    /\ Step(f, Render(fields[f]))

\* the form has rendered since the last change of state
FormRendered == \A f \in fieldNames : Render(fields[f]) = fields[f]

\* the options a render of the form fs calls the hooks with: the accessor
\* this render makes for a matches rule, () => fields[reads].value, returns
\* what the form renders; the runs and timers of earlier renders keep theirs
Accessors(cfg, fs) ==
    [g \in DOMAIN cfg |->
        IF "reads" \in DOMAIN cfg[g]
        THEN [cfg[g] EXCEPT !.otherValue = fs[cfg[g].reads].value]
        ELSE cfg[g]]

\* the component that calls useFormFields renders: every field's hook runs
RerenderForm ==
    /\ \E f \in fieldNames : Render(fields[f]) # fields[f]
    /\ fields' = [f \in fieldNames |-> Render(fields[f])]
    /\ config' = Accessors(config, fields)
    /\ UNCHANGED form

SetValues(values) ==
    /\ \A f \in fieldNames : CanLog(f)
    /\ fields' = setValues(config, fields, values).fields
    /\ form' = [form EXCEPT !.threw = setValues(config, fields, values).threw]
    /\ UNCHANGED config

SetInitialValues(values) ==
    /\ fields' = setInitialValues(fields, values).fields
    /\ form' = [form EXCEPT !.threw = setInitialValues(fields, values).threw]
    /\ UNCHANGED config

ResetAll ==
    /\ fields' = resetAll(fields)
    /\ UNCHANGED <<config, form>>

FormSetDisabled(b) ==
    /\ fields' = formSetDisabled(fields, b)
    /\ UNCHANGED <<config, form>>

\* a field constructed with one of the configurations
Init ==
    /\ \E o \in FieldConfigs : config = [f \in {"email"} |-> o]
    /\ fields = [f \in DOMAIN config |-> useFormField(config[f])]
    /\ form = useFormFields(config)

\* The validation runner at work: edits, blurs, manual validation, the
\* debounce timer, rules settling and callers resuming, in any order.
Next ==
    \E f \in fieldNames :
        \/ \E x \in Values : OnChange(f, x)
        \/ OnBlur(f)
        \/ Validate(f)
        \/ TimerFires(f)
        \/ RuleSettles(f)
        \/ CallerResumes(f)
        \/ Rerender(f)

Spec == Init /\ [][Next]_vars

\* A field validated on change without debounce, and only edited.
InitChange ==
    /\ \E o \in {c \in FieldConfigs : c.validateOnChange /\ c.validateDebounce = 0} :
           config = [f \in {"email"} |-> o]
    /\ fields = [f \in DOMAIN config |-> useFormField(config[f])]
    /\ form = useFormFields(config)

NextChange ==
    \E f \in fieldNames :
        \/ \E x \in Values : OnChange(f, x)
        \/ RuleSettles(f)
        \/ CallerResumes(f)
        \/ Rerender(f)

NextSettling ==
    \E f \in fieldNames :
        \/ OnChange(f, <<"a">>)
        \/ OnBlur(f)
        \/ Validate(f)
        \/ TimerFires(f)
        \/ RuleSettles(f)
        \/ CallerResumes(f)
        \/ Rerender(f)

SpecChange == InitChange /\ [][NextChange]_vars

\* The field, given a value that is too short, blurred, validated by hand
\* and rendered, when every rule called eventually returns, throws or
\* rejects, every continuation is run and every timer set fires.
SpecSettling ==
    /\ Init
    /\ [][NextSettling]_vars
    /\ WF_vars(\E f \in fieldNames : RuleSettles(f))
    /\ WF_vars(\E f \in fieldNames : CallerResumes(f))
    /\ WF_vars(\E f \in fieldNames : TimerFires(f))

\* A search box validated 300 ms after the last keystroke: typed into and
\* cleared while it is on the page, and taken off the page at any moment;
\* timers, rules and continuations go on after that.
SearchConfig == UseFormFieldOptions(<<>>, <<"required", "minLength">>, TRUE, FALSE, 300)

InitSearch ==
    /\ config = [f \in {"email"} |-> SearchConfig]
    /\ fields = [f \in DOMAIN config |-> useFormField(config[f])]
    /\ form = useFormFields(config)

NextSearch ==
    \E f \in fieldNames :
        \/ fields[f].mounted /\ \E x \in Values : OnChange(f, x)
        \/ fields[f].mounted /\ Reset(f)
        \/ fields[f].mounted /\ Rerender(f)
        \/ Unmount(f)
        \/ TimerFires(f)
        \/ RuleSettles(f)
        \/ CallerResumes(f)

SpecSearch == InitSearch /\ [][NextSearch]_vars

\* A field validated 300 ms after the last keystroke and at once when the
\* user leaves it, enabled or disabled from the start: focused, typed into
\* and blurred while timers are pending and runs are in flight.
InitTyping ==
    /\ \E d \in BOOLEAN :
           config = [f \in {"email"} |->
                        [UseFormFieldOptions(<<>>, <<"required", "minLength">>, TRUE, TRUE, 300)
                            EXCEPT !.disabled = d]]
    /\ fields = [f \in DOMAIN config |-> useFormField(config[f])]
    /\ form = useFormFields(config)

NextTyping ==
    \E f \in fieldNames :
        \/ OnFocus(f)
        \/ \E x \in Values \ {<<>>} : OnChange(f, x)
        \/ OnBlur(f)
        \/ TimerFires(f)
        \/ RuleSettles(f)
        \/ CallerResumes(f)
        \/ Rerender(f)

SpecTyping == InitTyping /\ [][NextTyping]_vars

\* A field constructed with each combination of validateOnChange and
\* validateOnBlur (debounce 300 ms): focused, given a value that is too
\* short, blurred and validated by hand.
TriggerConfigs ==
    { UseFormFieldOptions(<<>>, <<"required", "minLength">>, c, b, 300) :
          c \in BOOLEAN, b \in BOOLEAN }

InitTriggers ==
    /\ \E o \in TriggerConfigs : config = [f \in {"email"} |-> o]
    /\ fields = [f \in DOMAIN config |-> useFormField(config[f])]
    /\ form = useFormFields(config)

NextTriggers ==
    \E f \in fieldNames :
        \/ OnFocus(f)
        \/ OnChange(f, <<"a">>)
        \/ OnBlur(f)
        \/ Validate(f)
        \/ TimerFires(f)
        \/ RuleSettles(f)
        \/ CallerResumes(f)
        \/ Rerender(f)

SpecTriggers == InitTriggers /\ [][NextTriggers]_vars

\* A field validated only on demand and driven through every action the
\* hook returns: focus, blur, an edit, setValue, validate, reset,
\* setError, setTouched, setDisabled and setInitialValue.  validate() is
\* called again once the call before has answered; everything else is done
\* at any moment, also while a validation is under way.
ActionsConfig == UseFormFieldOptions(<<>>, <<"required">>, FALSE, FALSE, 0)

InitActions ==
    /\ config = [f \in {"email"} |-> ActionsConfig]
    /\ fields = [f \in DOMAIN config |-> useFormField(config[f])]
    /\ form = useFormFields(config)

\* the operations that are not reset()
OtherOp(f) ==
    \/ OnFocus(f)
    \/ OnBlur(f)
    \/ OnChange(f, <<"a">>)
    \/ SetValue(f, <<"a">>)
    \/ Validate(f)
    \/ SetError(f, "Already taken")
    \/ \E b \in BOOLEAN : SetTouched(f, b)
    \/ \E b \in BOOLEAN : SetDisabled(f, b)
    \/ SetInitialValue(f, <<"a">>)

NextActions ==
    \E f \in fieldNames :
        \/ OtherOp(f) /\ (Validate(f) => Settled(f))
        \/ Reset(f)
        \/ RuleSettles(f)
        \/ CallerResumes(f)
        \/ Rerender(f)

SpecActions == InitActions /\ [][NextActions]_vars

\* A quantity input with rules min(2) and max(12), constructed with a text
\* of up to MaxText characters or with one of the numbers -1 to 13, and
\* validated by hand and rendered.
Texts == UNION { [1..n -> Digits \cup {"-", " ", "a"}] : n \in 0..MaxText }
Amounts == {String(text) : text \in Texts} \cup {Number(n - 1) : n \in 0..14} \cup {NaN}

InitQuantity ==
    /\ \E x \in Amounts :
           config = [f \in {"quantity"} |->
                        UseFormFieldOptions(x, <<"min", "max">>, FALSE, FALSE, 0)]
    /\ fields = [f \in DOMAIN config |-> useFormField(config[f])]
    /\ form = useFormFields(config)

NextQuantity ==
    \E f \in fieldNames :
        \/ Validate(f)
        \/ RuleSettles(f)
        \/ CallerResumes(f)
        \/ Rerender(f)

SpecQuantity == InitQuantity /\ [][NextQuantity]_vars

\* A password confirmation validated as it changes with the rules required
\* and matches(() => password.value), while the password the accessor reads
\* is changed by its owner.
InitConfirm ==
    /\ config = [f \in {"confirm"} |->
                    UseFormFieldOptions(<<>>, <<"required", "matches">>, TRUE, FALSE, 0)
                        @@ [otherValue |-> PasswordAtFirst]]
    /\ fields = [f \in DOMAIN config |-> useFormField(config[f])]
    /\ form = useFormFields(config)

\* password.value = v
PasswordChanges(v) ==
    /\ config' = [f \in DOMAIN config |-> [config[f] EXCEPT !.otherValue = v]]
    /\ config' # config
    /\ UNCHANGED <<fields, form>>

NextConfirm ==
    \/ \E v \in Values : PasswordChanges(v)
    \/ \E f \in fieldNames :
           \/ \E x \in Values : OnChange(f, x)
           \/ RuleSettles(f)
           \/ CallerResumes(f)
           \/ Rerender(f)

SpecConfirm == InitConfirm /\ [][NextConfirm]_vars

\* A field validated 300 ms after a change and at once on blur, whose owner
\* ends the editing with reset() or with setInitialValue(fetched): the user
\* acts on the field only while it is visited and has its first baseline;
\* after the last word only timers, rules, continuations and renders go on.
FinalConfig == UseFormFieldOptions(<<>>, <<"required", "minLength">>, TRUE, TRUE, 300)
Fetched == <<"a", "b">>

InitFinal ==
    /\ config = [f \in {"email"} |-> FinalConfig]
    /\ fields = [f \in DOMAIN config |-> useFormField(config[f])]
    /\ form = useFormFields(config)

\* the owner has not loaded the fetched value yet
Unloaded(f) == fields[f].initialValueRef = config[f].initialValue

\* the user is at work on the field
Live(f) == fields[f].visited /\ Unloaded(f)

NextFinal ==
    \E f \in fieldNames :
        \/ ~fields[f].visited /\ Unloaded(f) /\ OnFocus(f)
        \/ Live(f) /\ OnChange(f, <<"a">>)
        \/ Live(f) /\ OnBlur(f)
        \/ Live(f) /\ Validate(f)
        \/ Live(f) /\ Reset(f)
        \/ Live(f) /\ SetInitialValue(f, Fetched)
        \/ TimerFires(f)
        \/ RuleSettles(f)
        \/ CallerResumes(f)
        \/ Rerender(f)

SpecFinal == InitFinal /\ [][NextFinal]_vars

\* A field without rules (the defaults otherwise: validation on change and
\* on blur, no debounce) that is given an error by the server: typed into,
\* blurred and validated by hand; it is never reset or given a new baseline.
InitServerError ==
    /\ config = [f \in {"email"} |-> UseFormFieldOptions(<<>>, <<>>, TRUE, TRUE, 0)]
    /\ fields = [f \in DOMAIN config |-> useFormField(config[f])]
    /\ form = useFormFields(config)

NextServerError ==
    \E f \in fieldNames :
        \/ SetError(f, "Already taken")
        \/ \E x \in Values : OnChange(f, x)
        \/ OnBlur(f)
        \/ Validate(f)
        \/ CallerResumes(f)
        \/ Rerender(f)

SpecServerError == InitServerError /\ [][NextServerError]_vars

\* A field of an edit form, validated only on demand: edited, focused,
\* blurred, validated, reset, and given new initial values.
ManualConfig == UseFormFieldOptions(<<>>, <<"required", "minLength">>, FALSE, FALSE, 0)

InitEdit ==
    /\ config = [f \in {"email"} |-> ManualConfig]
    /\ fields = [f \in DOMAIN config |-> useFormField(config[f])]
    /\ form = useFormFields(config)

NextEdit ==
    \E f \in fieldNames :
        \/ \E x \in Values : OnChange(f, x)
        \/ OnBlur(f)
        \/ OnFocus(f)
        \/ Validate(f)
        \/ Reset(f)
        \/ \E v \in Values : SetInitialValue(f, v)
        \/ \E v \in Values : SetValue(f, v)
        \/ RuleSettles(f)
        \/ CallerResumes(f)
        \/ Rerender(f)

SpecEdit == InitEdit /\ [][NextEdit]_vars

\* A text input that trims what is typed, reports its value to the parent,
\* and can be switched off: typed into, set from outside, disabled, enabled.
Inputs == Values \cup {<<" ", "a">>}

InputConfigs ==
    { [UseFormFieldOptions(<<>>, <<"required", "minLength">>, TRUE, TRUE, d)
          EXCEPT !.transform = "trim", !.onValueChange = TRUE] : d \in {0, 300} }

InitInput ==
    /\ \E o \in InputConfigs : config = [f \in {"email"} |-> o]
    /\ fields = [f \in DOMAIN config |-> useFormField(config[f])]
    /\ form = useFormFields(config)

NextInput ==
    \E f \in fieldNames :
        \/ \E x \in Inputs : OnChange(f, x)
        \/ \E v \in Inputs : SetValue(f, v)
        \/ \E b \in BOOLEAN : SetDisabled(f, b)
        \/ TimerFires(f)
        \/ RuleSettles(f)
        \/ CallerResumes(f)
        \/ Rerender(f)

SpecInput == InitInput /\ [][NextInput]_vars

\* A field of an edit form that trims and reports what is typed, validated
\* on demand, whose initial value arrives after the data is fetched.
FetchedValues == {<<" ", "a">>, <<"a", "b">>}

BaselineConfig ==
    [UseFormFieldOptions(<<>>, <<"required", "minLength">>, FALSE, FALSE, 0)
        EXCEPT !.transform = "trim", !.onValueChange = TRUE]

InitBaseline ==
    /\ config = [f \in {"email"} |-> BaselineConfig]
    /\ fields = [f \in DOMAIN config |-> useFormField(config[f])]
    /\ form = useFormFields(config)

NextBaseline ==
    \E f \in fieldNames :
        \/ OnFocus(f)
        \/ Validate(f)
        \/ Reset(f)
        \/ \E v \in FetchedValues : SetInitialValue(f, v)
        \/ RuleSettles(f)
        \/ CallerResumes(f)
        \/ Rerender(f)

SpecBaseline == InitBaseline /\ [][NextBaseline]_vars

\* A field validated as the user types and leaves it, whose error the
\* parent may also set from a server response: focused, typed into, blurred.
ServerErrors == {"", "Already taken"}

InitFocus ==
    /\ config = [f \in {"email"} |->
                    UseFormFieldOptions(<<>>, <<"required", "minLength">>, TRUE, TRUE, 0)]
    /\ fields = [f \in DOMAIN config |-> useFormField(config[f])]
    /\ form = useFormFields(config)

NextFocus ==
    \E f \in fieldNames :
        \/ \E x \in Values : OnChange(f, x)
        \/ OnFocus(f)
        \/ OnBlur(f)
        \/ \E e \in ServerErrors : SetError(f, e)
        \/ RuleSettles(f)
        \/ CallerResumes(f)
        \/ Rerender(f)

SpecFocus == InitFocus /\ [][NextFocus]_vars

\* A form of two fields validated on submit, holding what was loaded into
\* it: submitted, and submitted again before the first submission resolves,
\* with renders of the form in between.
FormConfig(username, email) ==
    [ username |-> UseFormFieldOptions(username, <<"required">>, FALSE, FALSE, 0),
      email |-> UseFormFieldOptions(email, <<"required", "minLength">>, FALSE, FALSE, 0) ]

InitForm ==
    /\ \E u \in {<<>>, <<"a", "b">>} : \E e \in Values : config = FormConfig(u, e)
    /\ fields = [f \in DOMAIN config |-> useFormField(config[f])]
    /\ form = useFormFields(config)

NextForm ==
    \/ ValidateAll
    \/ ValidateAllResumes
    \/ RerenderForm
    \/ \E f \in fieldNames :
           \/ RuleSettles(f)
           \/ CallerResumes(f)

SpecForm == InitForm /\ [][NextForm]_vars

\* A sign-up form validated on submit whose user name is missing: the user
\* types one, the form is submitted, and it is disabled.
SignUpConfig ==
    [ username |-> UseFormFieldOptions(<<>>, <<"required">>, FALSE, FALSE, 0),
      email |-> UseFormFieldOptions(<<"a", "b">>, <<"minLength">>, FALSE, FALSE, 0) ]

InitSignUp ==
    /\ config = SignUpConfig
    /\ fields = [f \in DOMAIN config |-> useFormField(config[f])]
    /\ form = useFormFields(config)

NextSignUp ==
    \/ ValidateAll
    \/ ValidateAllResumes
    \/ FormSetDisabled(TRUE)
    \/ RerenderForm
    \/ OnChange("username", <<"a", "b">>)
    \/ \E f \in fieldNames :
           \/ RuleSettles(f)
           \/ CallerResumes(f)

SpecSignUp == InitSignUp /\ [][NextSignUp]_vars

\* An edit form filled from a server response that may carry keys the form
\* does not have: the response is applied as values or as initial values.
Keys == {"username", "email", "phone", "constructor"}

\* Object.entries(values) of the objects with one or two of the keys
Partials ==
    {<< <<k, <<"a">> >> >> : k \in Keys}
        \cup {<< <<ks[1], <<"a">> >>, <<ks[2], <<"a", "b">> >> >> :
                  ks \in {kk \in Keys \X Keys : kk[1] # kk[2]}}

InitBulk ==
    /\ config = SignUpConfig
    /\ fields = [f \in DOMAIN config |-> useFormField(config[f])]
    /\ form = useFormFields(config)

NextBulk ==
    \/ \E values \in Partials : SetValues(values)
    \/ \E values \in Partials : SetInitialValues(values)
    \/ RerenderForm

SpecBulk == InitBulk /\ [][NextBulk]_vars

\* A form whose user name is validated as the user types and whose e-mail is
\* checked by the server: the user name is focused, both fields are typed
\* into, the e-mail is left and given the server's error, the form renders,
\* and it is reset while validations of the user name are under way.
LiveConfig ==
    [ username |-> UseFormFieldOptions(<<>>, <<"required">>, TRUE, FALSE, 0),
      email |-> UseFormFieldOptions(<<"a", "b">>, <<"minLength">>, FALSE, FALSE, 0) ]

InitLive ==
    /\ config = LiveConfig
    /\ fields = [f \in DOMAIN config |-> useFormField(config[f])]
    /\ form = useFormFields(config)

NextLive ==
    \/ ResetAll
    \/ OnFocus("username")
    \/ OnBlur("email")
    \/ SetError("email", "Already taken")
    \/ \E f \in fieldNames : OnChange(f, <<"a">>)
    \/ RuleSettles("username")
    \/ CallerResumes("username")
    \/ RerenderForm

SpecLive == InitLive /\ [][NextLive]_vars

\* A form with a password validated on demand and a confirmation validated,
\* with debounce, as it is typed, whose matches rule reads the password the
\* form rendered: everything a field offers is done to the password, on the
\* rendered form and between its validations; the confirmation is typed
\* until its first validation starts, and left; timers fire, rules settle
\* and callers resume on both; the form renders at any moment.
PairConfig ==
    [ password |-> UseFormFieldOptions(<<>>, <<"required">>, FALSE, FALSE, 0),
      confirm |-> UseFormFieldOptions(<<>>, <<"required", "matches">>, TRUE, FALSE, 300)
                      @@ [otherValue |-> <<>>, reads |-> "password"] ]

InitPair ==
    /\ config = PairConfig
    /\ fields = [f \in DOMAIN config |-> useFormField(config[f])]
    /\ form = useFormFields(config)

\* anything done to field f
FieldOp(f) ==
    \/ OnChange(f, <<"a">>)
    \/ OnBlur(f)
    \/ OnFocus(f)
    \/ SetValue(f, <<"a">>)
    \/ Validate(f)
    \/ Reset(f)
    \/ SetError(f, "Already taken")
    \/ SetInitialValue(f, <<"a">>)

\* anything that happens to field f
FieldEvent(f) ==
    \/ TimerFires(f)
    \/ RuleSettles(f)
    \/ CallerResumes(f)

NextPair ==
    \/ Settled("password") /\ FormRendered /\ FieldOp("password")
    \/ RuleSettles("password")
    \/ CallerResumes("password")
    \/ fields["confirm"].runSeq = 0 /\ OnChange("confirm", <<"a">>)
    \/ FormRendered /\ OnBlur("confirm")
    \/ FieldEvent("confirm")
    \/ RerenderForm

SpecPair == InitPair /\ [][NextPair]_vars

-----------------------------------------------------------------------------
(* What a validation run is meant to produce *)

\* the rules of the list that do not pass value v
Stops(rules, v) == {k \in 1..Len(rules) : ValidationRule(rules[k], v) # Null}

\* the first of them in configured order, 0 when every rule passes
FirstStop(rules, v) ==
    IF Stops(rules, v) = {}
    THEN 0
    ELSE CHOOSE k \in Stops(rules, v) : \A j \in Stops(rules, v) : k <= j

\* rule k of the list throws or rejects on v
Fails(rules, v, k) == k # 0 /\ ValidationRule(rules[k], v) \in {REJECT, THROW}

\* the error a run of the rules on v that nothing supersedes ends with
Outcome(rules, v) ==
    LET k == FirstStop(rules, v)
    IN  IF k = 0 THEN Null
        ELSE IF Fails(rules, v, k) THEN GenericError
        ELSE ValidationRule(rules[k], v)

\* no render is pending: the callbacks see the current state
Rendered(s) == Render(s) = s

-----------------------------------------------------------------------------
(* The claims *)

\* C1: when a validation run settles after a newer run has been started on
\* the field, its settling leaves error and validating unchanged and does
\* not invoke onValidationChange.  Stated for both steps of the settling:
\* the return of runValidation and the continuation of its caller.
C1_SupersededSettlingChangesNothing ==
    [][\A f \in fieldNames : \A r \in fields[f].runs :
          /\ ( /\ r.pc = "rule"
               /\ r.gen # fields[f].validationCounterRef
               /\ r \notin fields'[f].runs )
             => /\ fields'[f].error = fields[f].error
                /\ fields'[f].validating = fields[f].validating
          /\ ( /\ r.pc = "ret"
               /\ r.stale
               /\ r \notin fields'[f].runs )
             => /\ fields'[f].error = fields[f].error
                /\ fields'[f].validating = fields[f].validating
                /\ fields'[f].last.calls = <<>>
      ]_vars

\* C2: after onChange(a) then onChange(b) on a field validated on change
\* without debounce, once both runs have settled, in either order, error is
\* the outcome of the rules on b.
C2_LastChangeDecidesError ==
    \A f \in fieldNames :
        ( /\ config[f].validateOnChange
          /\ config[f].validateDebounce = 0
          /\ fields[f].runSeq = 2
          /\ fields[f].runs = {} )
        => fields[f].error = Outcome(config[f].rules, fields[f].value)

\* C3: validate() resolves to true only if every rule passes for the value
\* the run validated.
C3_ValidateTrueOnlyIfRulesPass ==
    \A f \in fieldNames :
        ( /\ fields[f].last.src = "validate"
          /\ fields[f].last.answer = "true" )
        => FirstStop(config[f].rules, fields[f].last.val) = 0

\* C4: once rendered, dirty is true exactly when value differs from the
\* current baseline initialValue.
C4_DirtyIffValueDiffersFromBaseline ==
    \A f \in fieldNames :
        Rendered(fields[f])
        => (fields[f].dirty <=> fields[f].value # fields[f].initialValueRef)

\* C5: right after reset(), as the next render shows it, value is the
\* current baseline, touched, visited and focused are false, error is null,
\* validating is false and dirty is false.
C5_ResetRestoresBaseline ==
    [][\A f \in fieldNames :
          Reset(f) =>
              LET s == Render(fields'[f])
              IN  /\ s.value = fields[f].initialValueRef
                  /\ s.initialValueRef = fields[f].initialValueRef
                  /\ ~s.touched /\ ~s.visited /\ ~s.focused
                  /\ s.error = Null
                  /\ ~s.validating
                  /\ ~s.dirty
      ]_vars

\* C6: with validateOnChange and a debounce delay, the onChange calls made
\* before the delay elapses leave one pending timer, the one of the last
\* call, holding the value of that call; when it fires it starts one run, of
\* that value, and no timer of an earlier call is left to start another.
C6_DebounceCoalescesChanges ==
    [][\A f \in fieldNames :
          /\ Cardinality(fields'[f].timers) <= 1
          /\ \A t \in fields'[f].timers :
                 /\ t.id = fields'[f].timerSeq
                 /\ t.val = fields'[f].value
          /\ TimerFires(f) =>
                 /\ fields'[f].timers = {}
                 /\ fields'[f].runSeq = fields[f].runSeq + 1
                 /\ \E r \in fields'[f].runs :
                        /\ r.id = fields'[f].runSeq
                        /\ r.src = "timer"
                        /\ r.val = fields[f].value
      ]_vars

\* two onChange calls, one run: the first timer was cancelled by the second
\* call, the second fired and its run, of the last value, has completed
C6_Witness ==
    \E f \in fieldNames :
        /\ config[f].validateDebounce > 0
        /\ fields[f].timerSeq = 2
        /\ fields[f].timers = {}
        /\ fields[f].runSeq = 1
        /\ fields[f].runs = {}
        /\ fields[f].last.src = "timer"
        /\ fields[f].last.val = fields[f].value

\* C7: a manual validate() cancels any pending debounced validation, so no
\* timer scheduled before the call is left to start a run after it.
C7_ValidateCancelsPendingTimer ==
    [][\A f \in fieldNames : Validate(f) => fields'[f].timers = {}]_vars

\* C8: with validateOnBlur and a non-empty rule list, onBlur() starts a run
\* at once whatever the debounce delay, on the value the handler sees, and
\* leaves no timer pending.
C8_BlurValidatesAtOnce ==
    [][\A f \in fieldNames :
          ( /\ OnBlur(f)
            /\ config[f].validateOnBlur
            /\ Len(config[f].rules) > 0 )
          => /\ fields'[f].timers = {}
             /\ fields'[f].timerSeq = fields[f].timerSeq
             /\ fields'[f].runSeq = fields[f].runSeq + 1
             /\ fields'[f].validationCounterRef = fields[f].validationCounterRef + 1
             /\ \E r \in fields'[f].runs :
                    /\ r.id = fields'[f].runSeq
                    /\ r.src = "blur"
                    /\ r.gen = fields'[f].validationCounterRef
                    /\ r.val = fields[f].shownValue
                    /\ r.idx = 1
      ]_vars

\* a debounced field whose only timer was cancelled by the blur that
\* started its only run
C8_Witness ==
    \E f \in fieldNames :
        /\ config[f].validateDebounce > 0
        /\ fields[f].timerSeq = 1
        /\ fields[f].timers = {}
        /\ fields[f].runSeq = 1
        /\ \E r \in fields[f].runs : r.src = "blur" /\ r.pc = "rule"

\* C9: a run that is not superseded, and in which no rule throws or
\* rejects, calls the rules in order up to the first one returning a
\* message and no further: error becomes that message and validate()
\* resolves false; if every rule passes error becomes null and validate()
\* resolves true.
C9_FirstFailingRuleWins ==
    [][\A f \in fieldNames :
          fields'[f].last # fields[f].last =>
              LET r == fields'[f].last
                  rules == config[f].rules
                  k == FirstStop(rules, r.val)
              IN  (~r.stale /\ ~Fails(rules, r.val, k)) =>
                      /\ r.idx = IF k = 0 THEN Len(rules) ELSE k
                      /\ fields'[f].error =
                             IF k = 0 THEN Null ELSE ValidationRule(rules[k], r.val)
                      /\ r.src = "validate" =>
                             r.answer = IF k = 0 THEN "true" ELSE "false"
      ]_vars

\* validate() of the empty value under [required, minLength] has resolved
\* false with the required message after calling the first rule only
C9_Witness ==
    \E f \in fieldNames :
        /\ config[f].rules = <<"required", "minLength">>
        /\ fields[f].last.src = "validate"
        /\ ~fields[f].last.stale
        /\ fields[f].last.val = <<>>
        /\ fields[f].last.idx = 1
        /\ fields[f].last.answer = "false"
        /\ fields[f].error = RequiredMessage

\* C10: when a rule throws or rejects in a run that is not superseded,
\* runValidation returns the generic message with validating false and
\* without calling the rules after it; its caller then sets error to the
\* generic message and validate() resolves false.
C10_RuleExceptionBecomesGenericError ==
    [][\A f \in fieldNames :
          /\ \A r \in fields'[f].runs :
                 ( /\ r.pc = "ret"
                   /\ r \notin fields[f].runs
                   /\ ~r.stale
                   /\ Fails(config[f].rules, r.val, FirstStop(config[f].rules, r.val)) )
                 => /\ r.result = GenericError
                    /\ r.idx = FirstStop(config[f].rules, r.val)
                    /\ ~fields'[f].validating
          /\ ( /\ fields'[f].last # fields[f].last
               /\ ~fields'[f].last.stale
               /\ Fails(config[f].rules, fields'[f].last.val,
                        FirstStop(config[f].rules, fields'[f].last.val)) )
             => /\ fields'[f].error = GenericError
                /\ fields'[f].last.idx =
                       FirstStop(config[f].rules, fields'[f].last.val)
                /\ fields'[f].last.src = "validate" =>
                       fields'[f].last.answer = "false"
      ]_vars

\* validate() of "a" under [remote, minLength] has resolved false with the
\* generic message after the first rule rejected; the second was not called
C10_Witness ==
    \E f \in fieldNames :
        /\ config[f].rules = <<"remote", "minLength">>
        /\ fields[f].last.src = "validate"
        /\ ~fields[f].last.stale
        /\ fields[f].last.val = <<"a">>
        /\ fields[f].last.idx = 1
        /\ fields[f].last.answer = "false"
        /\ fields[f].error = GenericError
        /\ ~fields[f].validating

-----------------------------------------------------------------------------
\* C11: while the field is disabled, onChange(x) changes nothing at all: the
\* value, the error, validating, touched, the generation counter and the
\* pending debounce timer stay as they are, onValueChange is not called, and
\* no validation is started or scheduled.
C11_ChangeOnDisabledFieldIsNoOp ==
    [][\A f \in fieldNames : \A x \in Inputs :
          (OnChange(f, x) /\ fields[f].shownDisabled)
              => fields'[f] = fields[f]]_vars

\* a disabled field with a debounce timer pending, on which onChange can be
\* called
C11_Witness ==
    \E f \in fieldNames :
        /\ fields[f].shownDisabled /\ fields[f].disabled
        /\ fields[f].timers # {}
        /\ fields[f].value # config[f].initialValue
        /\ CanLog(f) /\ CanSchedule(f)

\* C12: on an enabled field onChange(x) stores transform(x) as the value,
\* calls onValueChange exactly once, with the stored value, and when
\* validateOnChange is set requests a validation of that stored value: a run
\* on it without debounce, a timer for it with debounce.
C12_ChangeStoresAndValidatesTransformed ==
    [][\A f \in fieldNames : \A x \in Inputs :
          (OnChange(f, x) /\ ~fields[f].shownDisabled) =>
              LET o == config[f]
                  s == fields[f]
                  s2 == fields'[f]
                  stored == IF o.transform = "trim" THEN Trim(x) ELSE x
              IN  /\ s2.value = stored
                  /\ o.onValueChange => s2.valueLog = Append(s.valueLog, stored)
                  /\ (o.validateOnChange /\ o.validateDebounce = 0) =>
                         /\ s2.runSeq = s.runSeq + 1
                         /\ \E r \in s2.runs :
                                r.id = s2.runSeq /\ r.src = "change" /\ r.val = stored
                         /\ s2.timerSeq = s.timerSeq
                  /\ (o.validateOnChange /\ o.validateDebounce # 0) =>
                         /\ s2.timerSeq = s.timerSeq + 1
                         /\ s2.timers = {[id |-> s2.timerSeq, val |-> stored]}
                         /\ s2.runSeq = s.runSeq]_vars

\* an enabled field in which padded input was typed: the value, the call of
\* onValueChange and the run under way all carry the trimmed text
C12_Witness ==
    \E f \in fieldNames :
        LET s == fields[f]
        IN  /\ ~s.shownDisabled /\ ~s.disabled
            /\ config[f].transform = "trim"
            /\ s.value = <<"a">>
            /\ s.valueLog = << <<"a">> >>
            /\ \E r \in s.runs : r.src = "change" /\ r.val = <<"a">> /\ r.pc = "rule"

\* C13: setValue(v) stores transform(v) and calls onValueChange with it, on
\* a disabled field too, and neither starts nor schedules a validation: the
\* generation counter, the pending timer, the error, validating and touched
\* stay as they are.
C13_SetValueNeverValidates ==
    [][\A f \in fieldNames : \A v \in Inputs :
          SetValue(f, v) =>
              LET o == config[f]
                  s == fields[f]
                  stored == IF o.transform = "trim" THEN Trim(v) ELSE v
              IN  fields'[f] =
                      [s EXCEPT !.value = stored,
                                !.valueLog = IF o.onValueChange
                                             THEN Append(@, stored) ELSE @]]_vars

\* a disabled field whose value was set once, from outside: onValueChange got
\* the value and no validation was ever started or scheduled
C13_Witness ==
    \E f \in fieldNames :
        LET s == fields[f]
        IN  /\ s.shownDisabled /\ s.disabled
            /\ config[f].validateOnChange
            /\ s.value = <<"a">>
            /\ s.valueLog = << <<"a">> >>
            /\ s.runSeq = 0 /\ s.timerSeq = 0

\* C14: setInitialValue(v) makes v both the value and the baseline, as given:
\* no transform is applied and onValueChange is not called; it sets touched
\* to false and the error to null and leaves visited, focused, validating and
\* disabled as they are. The baseline changes in no other way, and reset()
\* puts the baseline back as the value, so a later reset() restores v.
C14_SetInitialValueMovesBaseline ==
    [][\A f \in fieldNames :
          LET s == fields[f]
              s2 == fields'[f]
          IN  /\ \A v \in FetchedValues :
                     SetInitialValue(f, v) =>
                         /\ s2.value = v /\ s2.initialValueRef = v
                         /\ s2.valueLog = s.valueLog
                         /\ ~s2.touched /\ s2.error = Null
                         /\ s2.visited = s.visited /\ s2.focused = s.focused
                         /\ s2.validating = s.validating
                         /\ s2.disabled = s.disabled
                         /\ s2.shownDisabled = s.shownDisabled
                         /\ reset(s2).value = v
              /\ Reset(f) => s2.value = s.initialValueRef
              /\ s2.initialValueRef # s.initialValueRef =>
                     \E v \in FetchedValues : SetInitialValue(f, v)]_vars

\* a visited, focused field under validation that was given a padded initial
\* value: it is the value and the baseline, untrimmed, and onValueChange
\* has not been called
C14_Witness ==
    \E f \in fieldNames :
        LET s == fields[f]
        IN  /\ config[f].transform = "trim"
            /\ s.value = <<" ", "a">> /\ s.initialValueRef = <<" ", "a">>
            /\ s.valueLog = <<>>
            /\ s.visited /\ s.focused /\ s.validating
            /\ ~s.touched /\ s.error = Null

\* C15: in every state valid is (error is null and not validating) and
\* invalid is (error is not null); the two are never both true, and both are
\* false exactly when the field is validating with a null error.
C15_ValidAndInvalidFromErrorAndValidating ==
    \A f \in fieldNames :
        LET s == fields[f]
        IN  /\ valid(s) = (s.error = Null /\ ~s.validating)
            /\ invalid(s) = (s.error # Null)
            /\ ~(valid(s) /\ invalid(s))
            /\ (~valid(s) /\ ~invalid(s)) = (s.validating /\ s.error = Null)

\* a field under validation whose error is null: neither valid nor invalid
C15_Witness ==
    \E f \in fieldNames :
        /\ fields[f].validating /\ fields[f].error = Null
        /\ ~valid(fields[f]) /\ ~invalid(fields[f])

\* C16: while the most recently started validation run has not settled,
\* validating is true: neither an operation nor the completion of an older
\* run makes it false.
C16_ValidatingWhileLatestRunInFlight ==
    \A f \in fieldNames :
        (\E r \in fields[f].runs : r.id = fields[f].runSeq /\ r.pc = "rule")
            => fields[f].validating

\* C17: whenever every validation run started on a field has settled and no
\* timer is pending, validating is false; and when every rule eventually
\* returns or throws, validating eventually becomes false and stays false
\* once the operations have ended.
C17_ValidatingEndsWithTheRuns ==
    /\ [](\A f \in fieldNames :
            ((\A r \in fields[f].runs : r.pc # "rule") /\ fields[f].timers = {})
                => ~fields[f].validating)
    /\ <>[](\A f \in fieldNames : ~fields[f].validating)

\* every run has settled, the last of them superseded, after a run had
\* turned validating on
C17_Witness ==
    \E f \in fieldNames :
        LET s == fields[f]
        IN  /\ s.runs = {} /\ s.timers = {}
            /\ s.runSeq >= 2 /\ s.validationCounterRef >= 2
            /\ s.last.stale
            /\ ~s.validating

\* C18: on a field with an empty rule list validating is false in every
\* state and the generation counter never moves, whatever onChange, onBlur
\* and validate() calls are made; and validate() resolves true.
C18_NoRulesNoValidation ==
    \A f \in fieldNames :
        Len(config[f].rules) = 0 =>
            /\ ~fields[f].validating
            /\ fields[f].validationCounterRef = 0
            /\ \A r \in fields[f].runs : r.pc = "ret" /\ r.result = Null
            /\ (fields[f].last.pc = "done" /\ fields[f].last.src = "validate")
                   => fields[f].last.answer = "true"

\* a field without rules, edited, on which validate() has resolved true
C18_Witness ==
    \E f \in fieldNames :
        /\ Len(config[f].rules) = 0
        /\ fields[f].value # config[f].initialValue
        /\ fields[f].runSeq >= 2
        /\ fields[f].last.src = "validate" /\ fields[f].last.answer = "true"

\* C19: renderError returns nothing whenever the field is focused, whatever
\* touched and error are; it returns a node exactly when the field is
\* touched, the error is a non-empty message and the field is not focused;
\* and after an onBlur the error, if present, is shown, so an error hidden by
\* focus comes back.  focused, touched and error are what the field returned
\* with renderError at its last render: on a rendered field they are the
\* state, and the error comes back with the render that follows the onBlur.
C19_ErrorShownOnlyWhenTouchedAndUnfocused ==
    /\ [](\A f \in fieldNames :
            LET s == fields[f]
            IN  /\ s.shownFocused => renderError(s) = Null
                /\ (renderError(s) # Null)
                       = (/\ s.shownTouched /\ ~s.shownFocused
                          /\ s.shownError # Null /\ s.shownError # "")
                /\ renderError(s) # Null => renderError(s) = <<"div", s.shownError>>
                /\ Rendered(s) =>
                       (renderError(s) # Null)
                           = (s.touched /\ s.error # Null /\ s.error # "" /\ ~s.focused))
    /\ [][\A f \in fieldNames :
             (OnBlur(f) /\ fields'[f].error # Null /\ fields'[f].error # "")
                 => renderError(Render(fields'[f])) = <<"div", fields'[f].error>>]_vars

\* a touched field with an error that is focused again and rendered: the
\* error is hidden, and the render after a blur shows it
C19_Witness ==
    \E f \in fieldNames :
        LET s == fields[f]
        IN  /\ s.touched /\ s.focused
            /\ s.error = RequiredMessage
            /\ Rendered(s)
            /\ renderError(s) = Null
            /\ renderError(Render(handleBlur(config[f], s))) = <<"div", RequiredMessage>>

\* C20: validateAll() starts a validation run on every field in one go,
\* before it awaits any result and whether or not an earlier field fails; it
\* resolves only when the validate() call of every field has resolved, to
\* the conjunction of their results; and when it resolves every field is
\* touched.
C20_ValidateAllValidatesEveryField ==
    [][/\ ValidateAll =>
            \A f \in fieldNames :
                /\ fields'[f].runSeq = fields[f].runSeq + 1
                /\ \E r \in fields'[f].runs :
                       r.id = fields'[f].runSeq /\ r.src = "validate"
       /\ ValidateAllResumes =>
            /\ \A f \in fieldNames :
                   /\ form'.last.results[f] \in {"true", "false"}
                   /\ fields'[f].runSeq >= form'.last.awaits[f]
                   /\ \A r \in fields'[f].runs : r.id # form'.last.awaits[f]
                   /\ fields'[f].touched
            /\ form'.last.answer =
                   (IF \A f \in fieldNames : form'.last.results[f] = "true"
                    THEN "true" ELSE "false")]_vars

\* validateAll has resolved false on a form whose first field fails and
\* whose second field passes: both were validated and are touched
C20_Witness ==
    /\ form.last.answer = "false"
    /\ form.last.results["username"] = "false"
    /\ form.last.results["email"] = "true"
    /\ \A f \in fieldNames : fields[f].touched
    /\ fields["username"].error = RequiredMessage

\* C21: in every state of a form isDirty is true iff some field is dirty,
\* isValid iff every field is valid and isDisabled iff every field is
\* disabled. In particular, once rendered, isDirty is false while every field
\* holds its initial value and true when onChange has given a field another
\* value; isValid is false while a field has an error; and when a
\* validateAll() resolves true whose validate() calls were the last to
\* complete on their fields, with no run left in flight, isValid is true.
C21_FormFlagsFoldFieldFlags ==
    /\ [](/\ isDirty(fields) = (\E f \in fieldNames : fields[f].dirty)
          /\ isValid(fields) =
                 (\A f \in fieldNames :
                     fields[f].error = Null /\ ~fields[f].validating)
          /\ isDisabled(fields) = (\A f \in fieldNames : fields[f].disabled)
          /\ (\A f \in fieldNames : Rendered(fields[f])) =>
                 (isDirty(fields) =
                     (\E f \in fieldNames : fields[f].value # config[f].initialValue))
          /\ (\E f \in fieldNames : fields[f].error # Null) => ~isValid(fields))
    /\ [][(/\ ValidateAllResumes
            /\ form'.last.answer = "true"
            /\ \A f \in fieldNames :
                   /\ fields'[f].runs = {}
                   /\ fields'[f].last.id = form'.last.awaits[f])
               => isValid(fields')]_vars

\* the form was submitted with the user name missing, the user name was
\* typed and the form submitted again: it is dirty and valid
C21_Witness ==
    /\ form.last.id = 2 /\ form.last.answer = "true" /\ form.pending = {}
    /\ fields["username"].value = <<"a", "b">>
    /\ \A f \in fieldNames : fields[f].runs = {} /\ Rendered(fields[f])
    /\ isDirty(fields) /\ isValid(fields) /\ ~isDisabled(fields)

\* the configured fields an object names, and the value it gives a field
Named(values) == {values[k][1] : k \in DOMAIN values} \cap fieldNames
ValueIn(values, f) ==
    values[CHOOSE k \in DOMAIN values : values[k][1] = f][2]

\* C22: form.setValues(partial) changes the value of exactly the configured
\* fields named in partial, ignores the keys that are no configured fields,
\* leaves every other field as it is and starts or schedules no validation;
\* form.setInitialValues(partial) applies setInitialValue to the same fields.
C22_BulkSettersTouchNamedFieldsOnly ==
    [][\A values \in Partials :
          /\ SetValues(values) =>
                /\ ~form'.threw
                /\ \A f \in fieldNames :
                       fields'[f] =
                           IF f \in Named(values)
                           THEN [fields[f] EXCEPT !.value = ValueIn(values, f)]
                           ELSE fields[f]
          /\ SetInitialValues(values) =>
                /\ ~form'.threw
                /\ \A f \in fieldNames :
                       fields'[f] =
                           IF f \in Named(values)
                           THEN setInitialValue(fields[f], ValueIn(values, f))
                           ELSE fields[f]]_vars

\* C23: after resetAll() every field holds its own baseline as value and has
\* touched, visited, focused, error and validating cleared, whatever onChange
\* calls came before.
C23_ResetAllResetsEveryField ==
    [][ResetAll =>
          \A f \in fieldNames :
              LET s == fields'[f]
              IN  /\ s.value = fields[f].initialValueRef
                  /\ s.initialValueRef = fields[f].initialValueRef
                  /\ ~s.touched /\ ~s.visited /\ ~s.focused
                  /\ s.error = Null
                  /\ ~s.validating]_vars

\* both fields were changed, one carries an error and has been left, the
\* other is focused with its validation under way: resetAll has work to do
\* on each
C23_Witness ==
    /\ fields["username"].value # <<>> /\ fields["email"].value # <<"a", "b">>
    /\ fields["email"].error = "Already taken" /\ fields["email"].touched
    /\ \A f \in fieldNames : Rendered(fields[f])
    /\ fields["username"].focused /\ fields["username"].validating
    /\ \A f \in fieldNames : resetAll(fields)[f].value = config[f].initialValue

\* C24: getValues() returns a mapping with exactly the configured field
\* names as keys, each with the current value of its field, and getErrors()
\* one with each field's current error or null.  Both are computed from the
\* fields and write nothing.  The values and the errors are those of the
\* last render.
C24_GettersSnapshotEveryField ==
    /\ DOMAIN getValues(fields) = DOMAIN config
    /\ DOMAIN getErrors(fields) = DOMAIN config
    /\ (\A f \in fieldNames : Rendered(fields[f])) =>
           \A f \in fieldNames :
               /\ getValues(fields)[f] = fields[f].value
               /\ getErrors(fields)[f] = fields[f].error

\* a rendered form whose user name was typed after a failed submission: the
\* getters report the typed value and the error still standing
C24_Witness ==
    /\ \A f \in fieldNames : Rendered(fields[f])
    /\ getValues(fields) = [username |-> <<"a", "b">>, email |-> <<"a", "b">>]
    /\ getErrors(fields) = [username |-> RequiredMessage, email |-> Null]

\* C25: validate() validates the value the field has when it is called: the
\* run it starts is on the value last set, also when onChange or setValue
\* set it in the same event handler, before any render.
C25_ValidateUsesValueAtCall ==
    [][\A f \in fieldNames :
          Validate(f) =>
              \E r \in fields'[f].runs :
                  /\ r.id = fields'[f].runSeq
                  /\ r.src = "validate"
                  /\ r.val = fields[f].value]_vars

\* C26: a newly constructed field has the configured initial value, touched,
\* visited, focused and dirty false, pristine true, error null, validating
\* false, valid true and invalid false, whatever its rules: construction
\* starts no validation.  And as long as no validation has been started the
\* field stays valid with a null error, also when its value breaks a rule.
C26_NewFieldIsCleanAndValid ==
    /\ \A f \in fieldNames :
           LET s == fields[f]
           IN  /\ s.value = config[f].initialValue
               /\ ~s.touched /\ ~s.visited /\ ~s.focused
               /\ ~s.dirty /\ pristine(s)
               /\ s.error = Null /\ ~s.validating
               /\ valid(s) /\ ~invalid(s)
               /\ s.runs = {} /\ s.timers = {} /\ s.validationCounterRef = 0
    /\ [](\A f \in fieldNames :
            fields[f].runSeq = 0 =>
                /\ fields[f].error = Null /\ ~fields[f].validating
                /\ valid(fields[f]) /\ ~invalid(fields[f]))

\* a field constructed with rules its initial value breaks, before anything
\* was done to it: it is reported valid
C26_Witness ==
    \E f \in fieldNames :
        /\ fields[f] = useFormField(config[f])
        /\ Len(config[f].rules) > 0
        /\ ValidationRule(config[f].rules[1], fields[f].value) = RequiredMessage
        /\ valid(fields[f])

\* what a render leaves alone: the state, the refs, the runs and the timers
Cells(s) ==
    [s EXCEPT !.shownValue = s.value, !.shownDisabled = s.disabled,
              !.shownTouched = s.touched, !.shownFocused = s.focused,
              !.shownError = s.error, !.dirty = FALSE]

\* C27: in a form, whatever is done to one field (onChange, onBlur, onFocus,
\* setValue, validate, reset, setError, setInitialValue) and whatever happens
\* to it (a run of its rules settling, its debounce timer firing) leaves the
\* state, the generation counter and the pending timer of every other field
\* as they are: no validation is started on another field.  The render that
\* follows, the one step in which the hook of every field runs, leaves the
\* state, the counter, the runs and the timers of every field as they are.
\* In particular, when what the accessor of a field's matches rule returns
\* changes, no run is started and no timer is set or cleared on that field,
\* and its error stays.
C27_FieldsAreIndependent ==
    [][/\ \A f \in fieldNames :
              (FieldOp(f) \/ FieldEvent(f)) =>
                  \A g \in fieldNames \ {f} : fields'[g] = fields[g]
       /\ RerenderForm =>
              \A g \in fieldNames : Cells(fields'[g]) = Cells(fields[g])
       /\ \A g \in fieldNames :
              ("reads" \in DOMAIN config[g]
                  /\ config'[g].otherValue # config[g].otherValue) =>
                  /\ fields'[g].runs = fields[g].runs
                  /\ fields'[g].runSeq = fields[g].runSeq
                  /\ fields'[g].validationCounterRef = fields[g].validationCounterRef
                  /\ fields'[g].timers = fields[g].timers
                  /\ fields'[g].validateTimeoutRef = fields[g].validateTimeoutRef
                  /\ fields'[g].error = fields[g].error
                  /\ fields'[g].validating = fields[g].validating]_vars

\* the confirmation was typed and validated against an empty password, its
\* run has settled with the mismatch; then the password was given the same
\* value, validated and rendered: the accessor now returns a matching
\* password, and the confirmation still carries the mismatch, with no second
\* run and no timer
C27_Witness ==
    /\ fields["confirm"].value = <<"a">>
    /\ fields["confirm"].error = MatchMessage
    /\ fields["confirm"].runSeq = 1 /\ fields["confirm"].runs = {}
    /\ fields["confirm"].timers = {}
    /\ fields["password"].value = <<"a">>
    /\ fields["password"].last.src = "validate"
    /\ config["confirm"].otherValue = <<"a">>
    /\ RuleCall(config["confirm"], 2, fields["confirm"].value) = Null

\* C28: when a validate() call resolves, the field is touched, the
\* onValidationChange callback (when one is configured) has been called once
\* for that call, the boolean the call returns is the callback's first
\* argument, and that argument is true exactly when the second one, which is
\* the error the call has just stored in the field, is null.
C28_ValidateReportsWhatItStored ==
    [][\A f \in fieldNames :
          (CallerResumes(f) /\ fields'[f].last.src = "validate") =>
              LET call == fields'[f].last
              IN  /\ fields'[f].touched
                  /\ call.answer \in {"true", "false"}
                  /\ config[f].onValidationChange =>
                         /\ Len(call.calls) = 1
                         /\ call.calls[1][1] = (call.answer = "true")
                         /\ call.calls[1][1] = (call.calls[1][2] = Null)
                         /\ call.calls[1][2] = fields'[f].error]_vars

\* a validate() call has resolved to false: the field is touched, holds the
\* error, and the callback was called once with (false, error)
C28_Witness ==
    \E f \in fieldNames :
        /\ fields[f].last.src = "validate"
        /\ fields[f].last.pc = "done"
        /\ fields[f].last.answer = "false"
        /\ fields[f].last.calls = <<<<FALSE, fields[f].error>>>>
        /\ fields[f].error # Null
        /\ fields[f].touched

\* C29: a debounced validation that is pending when reset() is called or
\* when the component is unmounted never runs.  The call takes every pending
\* timer from the host; a timer scheduled later is a new one, so one that was
\* taken never comes back; and a debounced run starts only when a timer the
\* host still holds fires.  Hence the cancelled validation starts no run,
\* changes no field state and calls no onValidationChange.
C29_CancelledTimerNeverRuns ==
    [][\A f \in fieldNames :
          /\ (Reset(f) \/ Unmount(f)) => fields'[f].timers = {}
          /\ \A t \in fields'[f].timers \ fields[f].timers :
                 t.id > fields[f].timerSeq
          /\ \A r \in fields'[f].runs :
                 (r.src = "timer" /\ r.id > fields[f].runSeq) =>
                     \E t \in fields[f].timers \ fields'[f].timers :
                         /\ t.id = fields[f].validateTimeoutRef
                         /\ t.val = r.val]_vars

\* the component was unmounted with a debounced validation pending: both
\* timers ever scheduled are gone, no run was ever started, no error is shown
C29_Witness ==
    \E f \in fieldNames :
        /\ ~fields[f].mounted
        /\ fields[f].timerSeq >= 1
        /\ fields[f].timers = {}
        /\ fields[f].runSeq = 0
        /\ fields[f].last = NoRun
        /\ fields[f].error = Null

\* C30: onFocus() sets visited and focused to true, leaves value, touched,
\* error, validating and disabled as they are, and neither starts, schedules
\* nor cancels a validation: the runs, the generation counter, the timers
\* and the timer reference are as before.
C30_FocusOnlyMarksTheField ==
    [][\A f \in fieldNames :
          OnFocus(f) =>
              /\ fields'[f].visited /\ fields'[f].focused
              /\ fields'[f].value = fields[f].value
              /\ fields'[f].touched = fields[f].touched
              /\ fields'[f].error = fields[f].error
              /\ fields'[f].validating = fields[f].validating
              /\ fields'[f].disabled = fields[f].disabled
              /\ fields'[f].runs = fields[f].runs
              /\ fields'[f].runSeq = fields[f].runSeq
              /\ fields'[f].validationCounterRef = fields[f].validationCounterRef
              /\ fields'[f].timers = fields[f].timers
              /\ fields'[f].timerSeq = fields[f].timerSeq
              /\ fields'[f].validateTimeoutRef = fields[f].validateTimeoutRef]_vars

\* the field was focused again after a blur started a run that is still
\* awaiting its rule: it is focused, visited, still touched and validating
C30_Witness ==
    \E f \in fieldNames :
        /\ fields[f].focused /\ fields[f].visited
        /\ fields[f].touched
        /\ fields[f].validating
        /\ \E r \in fields[f].runs : r.src = "blur" /\ r.pc = "rule"

\* C31: onBlur() sets touched to true and focused to false and never changes
\* value, visited or disabled; with validateOnBlur false it starts no
\* validation run and leaves error, validating and the generation counter
\* as they are.
C31_BlurMarksAndValidatesOnlyWhenAsked ==
    [][\A f \in fieldNames :
          OnBlur(f) =>
              /\ fields'[f].touched /\ ~fields'[f].focused
              /\ fields'[f].value = fields[f].value
              /\ fields'[f].visited = fields[f].visited
              /\ fields'[f].disabled = fields[f].disabled
              /\ ~config[f].validateOnBlur =>
                     /\ fields'[f].runs = fields[f].runs
                     /\ fields'[f].runSeq = fields[f].runSeq
                     /\ fields'[f].error = fields[f].error
                     /\ fields'[f].validating = fields[f].validating
                     /\ fields'[f].validationCounterRef =
                            fields[f].validationCounterRef]_vars

\* a field without validateOnBlur was left with a value its rules reject:
\* it is touched, not focused, and no run was ever started
C31_Witness ==
    \E f \in fieldNames :
        /\ ~config[f].validateOnBlur
        /\ fields[f].touched /\ ~fields[f].focused /\ fields[f].visited
        /\ fields[f].value = <<"a">>
        /\ fields[f].runSeq = 0
        /\ fields[f].validationCounterRef = 0
        /\ fields[f].error = Null

\* C32: the generation counter of a field never decreases and is not reset
\* by reset() or setInitialValue(); a run over a non-empty rule list raises
\* it by exactly one when it starts and takes the new count as its
\* generation, so no two runs of a field have the same generation, and a
\* run that can pass the staleness check is the one started last.
C32_GenerationsAreUniqueAndGrowing ==
    /\ [](\A f \in fieldNames :
             /\ \A r1, r2 \in fields[f].runs \cup {fields[f].last} :
                    (r1.id # r2.id) => (r1.gen # r2.gen)
             /\ \A r \in fields[f].runs :
                    (r.pc = "rule" /\ IsLatest(r, fields[f])) =>
                        r.id = fields[f].runSeq)
    /\ [][\A f \in fieldNames :
             /\ fields'[f].validationCounterRef >= fields[f].validationCounterRef
             /\ \A r \in fields'[f].runs :
                    (r.id > fields[f].runSeq /\ Len(config[f].rules) > 0) =>
                        /\ r.gen = fields[f].validationCounterRef + 1
                        /\ fields'[f].validationCounterRef = r.gen
             /\ (fields'[f].runSeq = fields[f].runSeq) =>
                    fields'[f].validationCounterRef =
                        fields[f].validationCounterRef]_vars

\* two runs are awaiting their rules with generations 1 and 2 and the
\* field has been reset since the second started: the counter is still 2
C32_Witness ==
    \E f \in fieldNames :
        /\ fields[f].validationCounterRef = 2
        /\ ~fields[f].validating
        /\ {r.gen : r \in {q \in fields[f].runs : q.pc = "rule"}} = {1, 2}

\* C33: with validateOnChange false an onChange call starts no run,
\* schedules no timer and leaves error, validating and the generation
\* counter as they are; the only runs such a field ever has come from
\* validate() or, when validateOnBlur is set, from onBlur.
C33_NoValidationOnChangeWhenSwitchedOff ==
    /\ [](\A f \in fieldNames :
             ~config[f].validateOnChange =>
                 /\ fields[f].timers = {} /\ fields[f].timerSeq = 0
                 /\ \A r \in fields[f].runs \cup {fields[f].last} :
                        \/ r.src \in {"none", "validate"}
                        \/ r.src = "blur" /\ config[f].validateOnBlur)
    /\ [][\A f \in fieldNames :
             (~config[f].validateOnChange /\ OnChange(f, <<"a">>)) =>
                 /\ fields'[f].runs = fields[f].runs
                 /\ fields'[f].runSeq = fields[f].runSeq
                 /\ fields'[f].timers = fields[f].timers
                 /\ fields'[f].timerSeq = fields[f].timerSeq
                 /\ fields'[f].error = fields[f].error
                 /\ fields'[f].validating = fields[f].validating
                 /\ fields'[f].validationCounterRef =
                        fields[f].validationCounterRef]_vars

\* a field with validateOnChange false and validateOnBlur set was given a
\* value that is too short: nothing was validated until it was blurred,
\* and the blur's run is the only one there has been
C33_Witness ==
    \E f \in fieldNames :
        /\ ~config[f].validateOnChange /\ config[f].validateOnBlur
        /\ fields[f].value = <<"a">>
        /\ fields[f].runSeq = 1
        /\ fields[f].last.src = "blur"
        /\ fields[f].last.val = <<"a">>
        /\ fields[f].error = MinLengthMessage

\* C34: visited, once true, stays true under every operation except
\* reset(): onBlur, onChange, setValue, validate, setError, setTouched,
\* setDisabled and setInitialValue do not clear it, and neither do onFocus,
\* a rule settling, a caller resuming or a render.
C34_OnlyResetClearsVisited ==
    [][\A f \in fieldNames :
          (/\ fields[f].visited
           /\ \/ OtherOp(f)
              \/ RuleSettles(f)
              \/ CallerResumes(f)
              \/ Rerender(f)) => fields'[f].visited]_vars

\* a visited field was given new initial values, disabled and validated
\* after it was left: it is still visited
C34_Witness ==
    \E f \in fieldNames :
        /\ fields[f].visited
        /\ ~fields[f].focused
        /\ fields[f].initialValueRef = <<"a">>
        /\ fields[f].disabled
        /\ fields[f].last.src = "validate"

\* the number a value stands for, if any: a number that is not NaN, or a
\* text that parseFloat reads a number from
Numeric(v) == IF v.type = "string" THEN ~parseFloat(v.text).nan ELSE ~v.nan
NumberOf(v) == IF v.type = "string" THEN parseFloat(v.text).num ELSE v.num
Limits == {0, 2, 12}

\* C35: validators.min(m) rejects exactly the numeric values strictly below
\* m and validators.max(M) exactly those strictly above M: the bound itself
\* passes both, and a value that does not parse to a number passes both.
\* Stated of the value the field holds, and of what its runs report.
C35_MinMaxRejectStrictlyOutside ==
    \A f \in fieldNames :
        LET v == fields[f].value
        IN  /\ \A m \in Limits :
                   /\ (min(m, v) # Null) <=> (Numeric(v) /\ NumberOf(v) < m)
                   /\ (max(m, v) # Null) <=> (Numeric(v) /\ NumberOf(v) > m)
                   /\ min(m, v) \in {Null, MinimumMessage(m)}
                   /\ max(m, v) \in {Null, MaximumMessage(m)}
                   /\ (Numeric(v) /\ NumberOf(v) = m) =>
                          min(m, v) = Null /\ max(m, v) = Null
                   /\ ~Numeric(v) => min(m, v) = Null /\ max(m, v) = Null
            /\ \A r \in fields[f].runs :
                   (r.pc = "ret" /\ ~r.stale) =>
                       r.result = IF Numeric(r.val) /\ NumberOf(r.val) < 2
                                  THEN MinimumMessage(2)
                                  ELSE IF Numeric(r.val) /\ NumberOf(r.val) > 12
                                  THEN MaximumMessage(12)
                                  ELSE Null

\* the text "2", the lower bound, was validated and passed
C35_Witness ==
    \E f \in fieldNames :
        /\ fields[f].value = String(<<"2">>)
        /\ fields[f].last.val = String(<<"2">>)
        /\ fields[f].last.result = Null
        /\ fields[f].last.pc = "done"
        /\ fields[f].last.answer = "true"

\* C36: a matches rule compares the validated value with what its accessor
\* returns at the moment the rule is called, not with what the other value
\* was when the rule was made: it rejects exactly when the two differ, and
\* a step in which it is called leaves the value the accessor reads as it
\* is.
C36_MatchesReadsTheOtherValueWhenCalled ==
    [][\A f \in fieldNames :
          \A r \in fields'[f].runs \ fields[f].runs :
              (r.pc = "rule" /\ config[f].rules[r.idx] = "matches") =>
                  /\ (r.out # Null) <=> (r.val # config[f].otherValue)
                  /\ r.out \in {Null, MatchMessage}
                  /\ config'[f].otherValue = config[f].otherValue]_vars

\* the confirmation "ab" passed its matches rule after the password had
\* been changed from "a" to "ab"
C36_Witness ==
    \E f \in fieldNames :
        /\ config[f].otherValue = <<"a", "b">>
        /\ fields[f].last.val = <<"a", "b">>
        /\ fields[f].last.idx = 2
        /\ fields[f].last.pc = "done"
        /\ fields[f].last.result = Null
        /\ fields[f].error = Null

\* C37: after reset() a run that was in flight when reset() was called does
\* not change error, validating or touched when it settles: until the next
\* operation the field stays as reset() left it.  Where every operation
\* but onFocus needs a visited field, a field that is not visited is new
\* or was reset with nothing done to it since.
C37_InFlightRunIgnoredAfterReset ==
    \A f \in fieldNames :
        ~fields[f].visited =>
            /\ fields[f].error = Null
            /\ ~fields[f].touched
            /\ ~fields[f].validating

\* C38: after setInitialValue(v) neither a debounced validation scheduled
\* before the call nor a run in flight at the call sets error from the value
\* that v replaced: error stays null until a validation is requested after
\* the call.  Where nothing is requested once the fetched value is loaded,
\* a field with the fetched baseline has no error.
C38_OldValidationIgnoredAfterSetInitialValue ==
    \A f \in fieldNames :
        fields[f].initialValueRef = Fetched => fields[f].error = Null

\* C39: on a field with an empty rule list an error set with setError(e) is
\* changed only by setError, reset() or setInitialValue(): onChange, onBlur
\* and validate(), with all that follows from them, leave it in place.
\* Where the field is never reset or given a new baseline and setError
\* always sets the same error, the error stays once it is set.
C39_ManualErrorStaysWithoutRules ==
    [][\A f \in fieldNames :
          (Len(config[f].rules) = 0 /\ fields[f].error = "Already taken") =>
              fields'[f].error = "Already taken"]_vars

\* C40: in every reachable state a focused field is visited: no sequence of
\* onFocus, onBlur, reset, setInitialValue, setTouched, the other actions
\* and validation completions gives a field that is focused but not visited.
C40_FocusedImpliesVisited ==
    \A f \in fieldNames : fields[f].focused => fields[f].visited

\* the field was left, validated by hand, and has the focus again
C40_Witness ==
    \E f \in fieldNames :
        /\ fields[f].focused /\ fields[f].visited
        /\ fields[f].touched
        /\ fields[f].last.src = "validate"
        /\ fields[f].last.pc = "done"

=============================================================================
